---- MODULE Spec2Model ----
(***************************************************************************)
(* Model of torchy_baselines/common/callbacks.py: the callback objects of  *)
(* a training loop (BaseCallback, EventCallback, CallbackList,             *)
(* CheckpointCallback, ConvertCallback, EvalCallback,                      *)
(* StopTrainingOnRewardThreshold, EveryNTimesteps) and the trainer that    *)
(* drives them through their lifecycle.                                    *)
(*                                                                         *)
(* The callback objects live in a heap `cb` (object id -> record of the    *)
(* object's attributes).  One action is one call the trainer makes on the  *)
(* root callback; the calls it makes on its children are part of the same  *)
(* action (the code is synchronous and single-threaded).                   *)
(***************************************************************************)
EXTENDS Integers, Sequences, FiniteSets, TLC

\* ------------------------------------------------------------------ bounds

\* total_timesteps of the learn() run: model.num_timesteps never exceeds it
MaxTimesteps == 5
\* number of callback() calls the trainer makes in one run
MaxCalls == 4
\* the largest increase of model.num_timesteps between two callback() calls
MaxAdvance == 2
\* the same two for the programs that evaluate the policy
EvalTimesteps == 2
EvalCalls == 3
\* budget of the end-to-end run (20 calls, 1 timestep per call)
E2ECalls == 20
\* episode rewards returned by evaluate_policy are in 0..MaxReward
MaxReward == 1
\* num_envs of the vectorized evaluation environment with several instances
MultiEnvs == 2

\* ------------------------------------------------------------------ values

\* Python's None, for references (object ids, the model, locals, globals)
None == 0
\* the id of the RL model every callback is bound to
TheModel == 1
\* the training environment returned by model.get_env()
TheEnv == 1
\* Logger.CURRENT
TheLogger == 1

\* Floats are exact rationals <<num, den>> with den > 0; -np.inf is <<-1, 0>>
NegInf == <<-1, 0>>

IsInf(a) == a[2] = 0

\* a < b on floats
Less(a, b) ==
    IF IsInf(a) THEN ~IsInf(b)
    ELSE IF IsInf(b) THEN FALSE
    ELSE a[1] * b[2] < b[1] * a[2]

\* a > b on floats
Greater(a, b) == Less(b, a)

\* a == b on floats (numeric, not structural)
NumEq(a, b) == ~Less(a, b) /\ ~Less(b, a)

RECURSIVE SumSeq(_)
SumSeq(s) == IF s = <<>> THEN 0 ELSE Head(s) + SumSeq(Tail(s))

\* np.mean(episode_rewards)
Mean(episode_rewards) == <<SumSeq(episode_rewards), Len(episode_rewards)>>

\* what a call yields: a Python value or the exception it raised
Exceptions == {"AssertionError", "AttributeError", "OSError"}

Raised(r) == r \in Exceptions

PyBool(b) == IF b THEN "True" ELSE "False"

\* Python's `a and b` on two bools
PyAnd(a, b) == IF a = "True" THEN b ELSE a

\* hasattr(obj, name)
HasAttr(obj, name) == name \in DOMAIN obj

\* ------------------------------------------------------- construction

\* BaseCallback.__init__
BaseCallback(class, verbose) ==
    [class |-> class, model |-> None, training_env |-> None, n_calls |-> 0,
     num_timesteps |-> 0, verbose |-> verbose, locals |-> None,
     globals |-> None, logger |-> None, parent |-> None]

\* EventCallback.__init__: the new object goes on the heap and, when it has a
\* child, the child's parent becomes the new object
EventCallback(heap, obj, callback) ==
    LET self == Len(heap) + 1
        h1 == Append(heap, obj @@ [callback |-> callback])
    IN  IF callback # None THEN [h1 EXCEPT ![callback].parent = self] ELSE h1

\* CallbackList.__init__
CallbackList(heap, callbacks) ==
    Append(heap, BaseCallback("CallbackList", 0) @@ [callbacks |-> callbacks])

\* CheckpointCallback.__init__
CheckpointCallback(heap, save_freq, save_path) ==
    Append(heap, BaseCallback("CheckpointCallback", 0) @@
                 [save_freq |-> save_freq, save_path |-> save_path,
                  name_prefix |-> "rl_model"])

\* ConvertCallback.__init__: callback is the old-style function (1) or None
ConvertCallback(heap, callback) ==
    Append(heap, BaseCallback("ConvertCallback", 0) @@ [callback |-> callback])

\* an evaluation environment: a plain gym.Env, or a VecEnv of num_envs
\* instances
GymEnv == [vec |-> FALSE]
VecEnv(num_envs) == [vec |-> TRUE, num_envs |-> num_envs]

\* a plausible slip: any positive number of instances accepted
EvalEnvOk_atleast(eval_env) == ~eval_env.vec \/ eval_env.num_envs >= 1

\* `if isinstance(eval_env, VecEnv): assert eval_env.num_envs == 1`
EvalEnvOk(eval_env) == ~eval_env.vec \/ eval_env.num_envs = 1

\* EvalCallback.__init__: when the assertion raises, the object is left with
\* the attributes set before it (the child's parent already refers to it)
EvalCallback(heap, eval_env, callback_on_new_best, n_eval_episodes, eval_freq, log_path, best_model_save_path) ==
    LET h1 == EventCallback(heap,
                  BaseCallback("EvalCallback", 1) @@
                  [n_eval_episodes |-> n_eval_episodes, eval_freq |-> eval_freq,
                   best_mean_reward |-> NegInf, deterministic |-> TRUE],
                  callback_on_new_best)
        self == Len(h1)
    IN  IF EvalEnvOk(eval_env)
        THEN [h1 EXCEPT ![self] = @ @@
                 [eval_env |-> eval_env,
                  best_model_save_path |-> best_model_save_path,
                  log_path |-> log_path,
                  evaluations_results |-> <<>>, evaluations_timesteps |-> <<>>]]
        ELSE h1

\* the constructor of some EvalCallback of the heap raised its AssertionError
ConstructionRaised(heap) ==
    \E h \in DOMAIN heap :
        heap[h].class = "EvalCallback" /\ ~HasAttr(heap[h], "eval_env")

\* StopTrainingOnRewardThreshold.__init__
StopTrainingOnRewardThreshold(heap, reward_threshold) ==
    Append(heap, BaseCallback("StopTrainingOnRewardThreshold", 0) @@
                 [reward_threshold |-> reward_threshold])

\* EveryNTimesteps.__init__
EveryNTimesteps(heap, n_steps, callback) ==
    EventCallback(heap,
        BaseCallback("EveryNTimesteps", 0) @@
        [n_steps |-> n_steps, last_time_trigger |-> 0],
        callback)

\* A path is the sequence of its components; <<>> stands for None
NoPath == <<>>

\* os.path.join(path, name)
PathJoin(path, name) == Append(path, name)

\* os.path.dirname(path)
Dirname(path) == SubSeq(path, 1, Len(path) - 1)

\* the evaluation environment a program hands to its EvalCallback
EvalEnv(name) ==
    CASE name = "eval_vec" -> VecEnv(MultiEnvs)
      [] name = "eval_stop2" -> VecEnv(1)
      [] OTHER -> GymEnv

\* The programs the trainer is run with.  Each is the heap after the
\* constructors ran, children first; the root is the object built last.
Program(name) ==
    CASE name = "checkpoint1" -> CheckpointCallback(<<>>, 1, <<"ckpt">>)
      [] name = "checkpoint2" -> CheckpointCallback(<<>>, 2, <<"ckpt">>)
      [] name = "checkpoint3" -> CheckpointCallback(<<>>, 3, <<"ckpt">>)
      [] name = "every1" ->
            EveryNTimesteps(ConvertCallback(<<>>, None), 1, 1)
      [] name = "every2" ->
            EveryNTimesteps(ConvertCallback(<<>>, 1), 2, 1)
      [] name = "every3" ->
            EveryNTimesteps(ConvertCallback(<<>>, 1), 3, 1)
      [] name = "eval_stop" ->
            EvalCallback(StopTrainingOnRewardThreshold(<<>>, <<1, 1>>),
                         EvalEnv(name), 1, 2, 1, NoPath, <<"best">>)
      [] name = "eval_log" ->
            EvalCallback(ConvertCallback(<<>>, None), EvalEnv(name),
                         1, 1, 1, <<"logs", "evaluations">>, <<"best">>)
      [] name = "eval_stop2" ->
            EvalCallback(StopTrainingOnRewardThreshold(<<>>, <<1, 2>>),
                         EvalEnv(name), 1, 2, 2, NoPath, NoPath)
      [] name = "eval_convert" ->
            EvalCallback(ConvertCallback(<<>>, 1), EvalEnv(name),
                         1, 2, 1, NoPath, <<"best">>)
      [] name = "eval_default" ->
            EvalCallback(<<>>, EvalEnv(name), None, 2, 2, NoPath, NoPath)
      [] name = "eval_vec" ->
            EvalCallback(StopTrainingOnRewardThreshold(<<>>, <<1, 1>>),
                         EvalEnv(name), 1, 2, 2, NoPath, NoPath)
      [] name = "stop_alone" ->
            StopTrainingOnRewardThreshold(<<>>, <<1, 1>>)
      [] name = "list_stop" ->
            LET h1 == StopTrainingOnRewardThreshold(<<>>, <<1, 1>>)
                h2 == ConvertCallback(h1, None)
            IN  CallbackList(h2, <<1, 2>>)
      [] name = "every_stop" ->
            EveryNTimesteps(StopTrainingOnRewardThreshold(<<>>, <<1, 1>>), 2, 1)
      [] name = "every_ckpt" ->
            EveryNTimesteps(CheckpointCallback(<<>>, 2, <<"ckpt">>), 2, 1)
      [] name = "every_eval" ->
            LET h1 == StopTrainingOnRewardThreshold(<<>>, <<1, 1>>)
                h2 == EvalCallback(h1, EvalEnv(name), 1, 1, 2, NoPath, <<"best">>)
            IN  EveryNTimesteps(h2, 1, 2)
      [] name = "list_ckpt" ->
            LET h1 == CheckpointCallback(<<>>, 2, <<"ckpt">>)
                h2 == ConvertCallback(h1, 1)
            IN  CallbackList(h2, <<1, 2>>)
      [] name = "list_empty" -> CallbackList(<<>>, <<>>)
      [] name = "list3" ->
            LET h1 == ConvertCallback(<<>>, 1)
                h2 == ConvertCallback(h1, 1)
                h3 == CheckpointCallback(h2, 2, <<"ckpt">>)
            IN  CallbackList(h3, <<1, 2, 3>>)
      [] name = "list_eval" ->
            LET h1 == StopTrainingOnRewardThreshold(<<>>, <<1, 1>>)
                h2 == EvalCallback(h1, EvalEnv(name), 1, 2, 1, NoPath, <<"best">>)
                h3 == ConvertCallback(h2, None)
            IN  CallbackList(h3, <<2, 3>>)
      [] name = "e2e" ->
            LET h1 == CheckpointCallback(<<>>, 10, <<"ckpt">>)
                h2 == ConvertCallback(h1, None)
                h3 == EveryNTimesteps(h2, 5, 2)
            IN  CallbackList(h3, <<1, 3>>)

Programs ==
    {"checkpoint1", "checkpoint2", "checkpoint3", "every1", "every2", "every3",
     "eval_stop", "eval_log", "eval_stop2", "eval_convert", "eval_default", "eval_vec",
     "stop_alone",
     "list_stop", "every_stop", "every_ckpt", "every_eval", "list_ckpt",
     "list_empty", "list3", "list_eval", "e2e"}

\* ------------------------------------------------------------- state

VARIABLES
    program,              \* which program was constructed
    cb,                   \* the heap: object id -> the callback's attributes
    root,                 \* the callback handed to the trainer
    model_num_timesteps,  \* model.num_timesteps
    saves,                \* the model.save(path) requests, in order
    npz,                  \* what np.savez last wrote: log path -> arrays
    dirs,                 \* the directories os.makedirs created
    stride,               \* timesteps collected per callback() call; 0: any
    phase,                \* where the trainer is in its run
    lastOp,               \* the call the trainer made last
    lastRet,              \* what that call returned or raised
    trace,                \* the calls made on callbacks during that call
    evaluated,            \* the evaluations run during that call
    fires,                \* every _on_event so far: who fired, at which timestep
    evals,                \* every evaluation so far: who, its mean reward
    evalCount,            \* object id -> number of evaluations it ran so far
    stepCalls             \* object id -> number of __call__ made on it so far

vars == <<program, cb, root, model_num_timesteps, saves, npz, dirs, stride, phase,
          lastOp, lastRet, trace, evaluated, fires, evals, evalCount,
          stepCalls>>

\* the part of the state a call on a callback can read and change
World ==
    [cb |-> cb, num_timesteps |-> model_num_timesteps, saves |-> saves,
     npz |-> npz, dirs |-> dirs, trace |-> <<>>, evaluated |-> <<>>,
     fires |-> fires, evals |-> evals, evalCount |-> evalCount]

Ids == DOMAIN cb

\* the log paths of the programs
LogPaths == {<<"logs", "evaluations">>}

NoFile == [written |-> FALSE, timesteps |-> <<>>, results |-> <<>>]

\* a call's outcome: the world after it, and what it returned or raised
Out(W, ret) == [w |-> W, ret |-> ret]

\* one more entry in the record of the calls made on callbacks
Log(W, op, self, ret) ==
    [W EXCEPT !.trace = Append(@, [op |-> op, h |-> self, ret |-> ret])]

\* ------------------------------------------------------------ the trainer

\* model.save(path): the request is made; the write may fail
ModelSave(W, self, path, inp) ==
    Out([W EXCEPT !.saves = Append(@, [by |-> self, path |-> path])],
        IF inp.save_fails THEN "OSError" ELSE "None")

\* evaluate_policy(model, eval_env, n_eval_episodes, return_episode_rewards=True)
EvaluatePolicy(inp, n_eval_episodes) == inp.rewards[n_eval_episodes]

\* os.makedirs(path, exist_ok=True)
Makedirs(W, path) == [W EXCEPT !.dirs = @ \cup {path}]

\* ------------------------------------------------------------ __call__

RECURSIVE Call(_, _, _)

\* a plausible slip: `self.callback()` without the `return`
EventCallback_on_event_noreturn(W, self, inp) ==
    LET W1 == [W EXCEPT !.fires =
                   Append(@, [by |-> self, at |-> W.cb[self].num_timesteps])]
        r == Call(W1, W.cb[self].callback, inp)
    IN  IF W.cb[self].callback # None
        THEN (IF Raised(r.ret) THEN r ELSE Out(r.w, "True"))
        ELSE Out(W1, "True")

\* a plausible slip: the child's n_calls kept in step with the parent's, as in
\* the lines left commented out in CallbackList._on_step
EventCallback_on_event_synced(W, self, inp) ==
    LET k == W.cb[self].callback
        W1 == [W EXCEPT !.fires =
                   Append(@, [by |-> self, at |-> W.cb[self].num_timesteps])]
        W2 == [W1 EXCEPT !.cb[k].n_calls = W.cb[self].n_calls - 1]
    IN  IF k # None THEN Call(W2, k, inp) ELSE Out(W1, "True")

\* EventCallback._on_event
EventCallback_on_event(W, self, inp) ==
    LET W1 == [W EXCEPT !.fires =
                   Append(@, [by |-> self, at |-> W.cb[self].num_timesteps])]
    IN  IF W.cb[self].callback # None
        THEN Call(W1, W.cb[self].callback, inp)
        ELSE Out(W1, "True")

\* a plausible slip: `continue_training and callback()`, which stops calling
\* the callbacks after the first False
RECURSIVE CallbackList_loop_shortcircuit(_, _, _, _, _)
CallbackList_loop_shortcircuit(W, callbacks, i, continue_training, inp) ==
    IF i > Len(callbacks) THEN Out(W, continue_training)
    ELSE IF continue_training = "False"
         THEN CallbackList_loop_shortcircuit(W, callbacks, i + 1, "False", inp)
         ELSE LET r == Call(W, callbacks[i], inp)
              IN  IF Raised(r.ret) THEN r
                  ELSE CallbackList_loop_shortcircuit(r.w, callbacks, i + 1,
                                                      r.ret, inp)

\* the loop of CallbackList._on_step, from the i-th callback on
RECURSIVE CallbackList_loop(_, _, _, _, _)
CallbackList_loop(W, callbacks, i, continue_training, inp) ==
    IF i > Len(callbacks) THEN Out(W, continue_training)
    ELSE LET r == Call(W, callbacks[i], inp)
         IN  IF Raised(r.ret) THEN r
             ELSE CallbackList_loop(r.w, callbacks, i + 1,
                                    PyAnd(r.ret, continue_training), inp)

\* CallbackList._on_step
CallbackList_on_step(W, self, inp) ==
    CallbackList_loop(W, W.cb[self].callbacks, 1, "True", inp)

\* a plausible slip: the period counted in timesteps, not in calls
CheckpointDue_timesteps(o) == o.num_timesteps % o.save_freq = 0

\* `self.n_calls % self.save_freq == 0`
CheckpointDue(o) == o.n_calls % o.save_freq = 0

\* CheckpointCallback._on_step
CheckpointCallback_on_step(W, self, inp) ==
    LET o == W.cb[self]
    IN  IF CheckpointDue(o)
        THEN LET path == PathJoin(o.save_path,
                             o.name_prefix \o "_" \o ToString(o.num_timesteps)
                                           \o "_steps")
                 s == ModelSave(W, self, path, inp)
             IN  IF Raised(s.ret) THEN s ELSE Out(s.w, "True")
        ELSE Out(W, "True")

\* ConvertCallback._on_step: the old-style function decides
ConvertCallback_on_step(W, self, inp) ==
    IF W.cb[self].callback # None
    THEN Out(W, PyBool(inp.convert[self]))
    ELSE Out(W, "True")

\* a plausible slip: the period counted in timesteps, not in calls
EvalDue_timesteps(o) == o.num_timesteps % o.eval_freq = 0

\* `self.n_calls % self.eval_freq == 0`
EvalDue(o) == o.n_calls % o.eval_freq = 0

\* a plausible slip: a tie counts as a new best
IsNewBest_ge(mean_reward, best_mean_reward) ==
    ~Less(mean_reward, best_mean_reward)

\* a plausible slip: the comparison turned around
IsNewBest_lt(mean_reward, best_mean_reward) ==
    Less(mean_reward, best_mean_reward)

\* `mean_reward > self.best_mean_reward`
IsNewBest(mean_reward, best_mean_reward) ==
    Greater(mean_reward, best_mean_reward)

\* np.savez(path, timesteps=..., results=...)
Savez(W, path, timesteps, results) ==
    [W EXCEPT !.npz[path] = [written |-> TRUE, timesteps |-> timesteps,
                             results |-> results]]

\* a plausible slip: np.savez before the two appends, so that the file lacks
\* the latest evaluation
EvalCallback_log_savefirst(W, self, episode_rewards) ==
    LET o == W.cb[self]
        W1 == Savez(W, o.log_path, o.evaluations_timesteps,
                    o.evaluations_results)
    IN  [W1 EXCEPT
           !.cb[self].evaluations_timesteps = Append(@, o.num_timesteps),
           !.cb[self].evaluations_results = Append(@, episode_rewards)]

\* the two appends and the np.savez of EvalCallback._on_step
EvalCallback_log(W, self, episode_rewards) ==
    LET o == W.cb[self]
        W1 == [W EXCEPT
                 !.cb[self].evaluations_timesteps = Append(@, o.num_timesteps),
                 !.cb[self].evaluations_results = Append(@, episode_rewards)]
    IN  Savez(W1, o.log_path, W1.cb[self].evaluations_timesteps,
              W1.cb[self].evaluations_results)

\* a plausible slip: best_mean_reward assigned before the model is saved
EvalCallback_new_best_assignfirst(W, self, mean_reward, inp) ==
    LET o == W.cb[self]
        W1 == [W EXCEPT !.cb[self].best_mean_reward = mean_reward]
        s == IF o.best_model_save_path # NoPath
             THEN ModelSave(W1, self,
                            PathJoin(o.best_model_save_path, "best_model"), inp)
             ELSE Out(W1, "None")
    IN  IF Raised(s.ret) THEN s
        ELSE IF o.callback # None
             THEN EventCallback_on_event(s.w, self, inp)
             ELSE Out(s.w, "True")

\* the `mean_reward > self.best_mean_reward` branch of EvalCallback._on_step:
\* the model is saved, then best_mean_reward assigned, then the child called
EvalCallback_new_best(W, self, mean_reward, inp) ==
    LET o == W.cb[self]
        s == IF o.best_model_save_path # NoPath
             THEN ModelSave(W, self,
                            PathJoin(o.best_model_save_path, "best_model"), inp)
             ELSE Out(W, "None")
        W3 == [s.w EXCEPT !.cb[self].best_mean_reward = mean_reward]
    IN  IF Raised(s.ret) THEN s
        ELSE IF o.callback # None
             THEN EventCallback_on_event(W3, self, inp)
             ELSE Out(W3, "True")

\* EvalCallback._on_step
EvalCallback_on_step(W, self, inp) ==
    LET o == W.cb[self]
    IN  IF EvalDue(o)
        THEN LET episode_rewards == EvaluatePolicy(inp, o.n_eval_episodes)
                 W1 == IF o.log_path # NoPath
                       THEN EvalCallback_log(W, self, episode_rewards)
                       ELSE W
                 mean_reward == Mean(episode_rewards)
                 W2 == [W1 EXCEPT
                          !.evals = @ \cup {[by |-> self, mean |-> mean_reward]},
                          !.evalCount[self] = @ + 1,
                          !.evaluated =
                              Append(@, [by |-> self,
                                         episode_rewards |-> episode_rewards])]
             IN  IF IsNewBest(mean_reward, o.best_mean_reward)
                 THEN EvalCallback_new_best(W2, self, mean_reward, inp)
                 ELSE Out(W2, "True")
        ELSE Out(W, "True")

\* a plausible slip: training goes on while the threshold is only met
ContinueTraining_le(best_mean_reward, reward_threshold) ==
    ~Less(reward_threshold, best_mean_reward)

\* `self.parent.best_mean_reward < self.reward_threshold`
ContinueTraining(best_mean_reward, reward_threshold) ==
    Less(best_mean_reward, reward_threshold)

\* StopTrainingOnRewardThreshold._on_step
StopTrainingOnRewardThreshold_on_step(W, self, inp) ==
    LET o == W.cb[self]
    IN  IF o.parent = None THEN Out(W, "AssertionError")
        ELSE IF ~HasAttr(W.cb[o.parent], "best_mean_reward")
             THEN Out(W, "AttributeError")
             ELSE Out(W, PyBool(ContinueTraining(
                                    W.cb[o.parent].best_mean_reward,
                                    o.reward_threshold)))

\* a plausible slip: the interval counted in calls, as the checkpoint period
EveryNDue_calls(o) == o.n_calls % o.n_steps = 0

\* a plausible slip: one timestep too late
EveryNDue_gt(o) == (o.num_timesteps - o.last_time_trigger) > o.n_steps

\* `(self.num_timesteps - self.last_time_trigger) >= self.n_steps`
EveryNDue(o) == (o.num_timesteps - o.last_time_trigger) >= o.n_steps

\* EveryNTimesteps._on_step
EveryNTimesteps_on_step(W, self, inp) ==
    LET o == W.cb[self]
    IN  IF EveryNDue(o)
        THEN EventCallback_on_event(
                 [W EXCEPT !.cb[self].last_time_trigger = o.num_timesteps],
                 self, inp)
        ELSE Out(W, "True")

\* self._on_step(), by the class of self
OnStep(W, self, inp) ==
    CASE W.cb[self].class = "CallbackList" -> CallbackList_on_step(W, self, inp)
      [] W.cb[self].class = "CheckpointCallback" ->
            CheckpointCallback_on_step(W, self, inp)
      [] W.cb[self].class = "ConvertCallback" ->
            ConvertCallback_on_step(W, self, inp)
      [] W.cb[self].class = "EvalCallback" -> EvalCallback_on_step(W, self, inp)
      [] W.cb[self].class = "StopTrainingOnRewardThreshold" ->
            StopTrainingOnRewardThreshold_on_step(W, self, inp)
      [] W.cb[self].class = "EveryNTimesteps" ->
            EveryNTimesteps_on_step(W, self, inp)

\* a plausible slip: the comment "timesteps start at zero" without the + 1
CurrentTimestep_nooffset(W) == W.num_timesteps

\* `self.model.num_timesteps + 1`
CurrentTimestep(W) == W.num_timesteps + 1

\* a plausible slip: `self._on_step()` without the `return`
Call_noreturn(W, self, inp) ==
    LET W1 == Log([W EXCEPT !.cb[self].n_calls = @ + 1], "call", self, "")
    IN  IF W.cb[self].model = None
        THEN Out(Log(W1, "raise", self, "AttributeError"), "AttributeError")
        ELSE LET W2 == [W1 EXCEPT
                          !.cb[self].num_timesteps = CurrentTimestep(W)]
                 r == OnStep(W2, self, inp)
                 ret == IF Raised(r.ret) THEN r.ret ELSE "None"
             IN  Out(Log(Log(r.w, "_on_step", self, r.ret),
                         IF Raised(r.ret) THEN "raise" ELSE "return",
                         self, ret),
                     ret)

\* BaseCallback.__call__
Call(W, self, inp) ==
    LET W1 == Log([W EXCEPT !.cb[self].n_calls = @ + 1], "call", self, "")
    IN  IF W.cb[self].model = None
        THEN Out(Log(W1, "raise", self, "AttributeError"), "AttributeError")
        ELSE LET W2 == [W1 EXCEPT
                          !.cb[self].num_timesteps = CurrentTimestep(W)]
                 r == OnStep(W2, self, inp)
             IN  Out(Log(Log(r.w, "_on_step", self, r.ret),
                         IF Raised(r.ret) THEN "raise" ELSE "return",
                         self, r.ret),
                     r.ret)

\* ------------------------------------------------------ init_callback

RECURSIVE InitCallback(_, _, _)

\* the loop of CallbackList._init_callback, from the i-th callback on
RECURSIVE CallbackList_init_loop(_, _, _, _)
CallbackList_init_loop(W, callbacks, i, model) ==
    IF i > Len(callbacks) THEN Out(W, "None")
    ELSE LET r == InitCallback(W, callbacks[i], model)
         IN  IF Raised(r.ret) THEN r
             ELSE CallbackList_init_loop(r.w, callbacks, i + 1, model)

\* CheckpointCallback._init_callback
CheckpointCallback_init_callback(W, self) ==
    IF W.cb[self].save_path # NoPath
    THEN Makedirs(W, W.cb[self].save_path)
    ELSE W

\* EvalCallback._init_callback
EvalCallback_init_callback(W, self) ==
    LET o == W.cb[self]
        W1 == IF o.best_model_save_path # NoPath
              THEN Makedirs(W, o.best_model_save_path)
              ELSE W
    IN  IF o.log_path # NoPath THEN Makedirs(W1, Dirname(o.log_path)) ELSE W1

\* self._init_callback(), by the class of self
InitHook(W, self) ==
    CASE W.cb[self].class = "CallbackList" ->
            CallbackList_init_loop(W, W.cb[self].callbacks, 1, W.cb[self].model)
      [] W.cb[self].class = "CheckpointCallback" ->
            Out(CheckpointCallback_init_callback(W, self), "None")
      [] W.cb[self].class = "EvalCallback" ->
            Out(EvalCallback_init_callback(W, self), "None")
      [] OTHER -> Out(W, "None")

\* BaseCallback.init_callback
BaseCallback_init_callback(W, self, model) ==
    InitHook(Log([W EXCEPT !.cb[self].model = model,
                           !.cb[self].training_env = TheEnv,
                           !.cb[self].logger = TheLogger],
                 "init_callback", self, ""),
             self)

\* EventCallback.init_callback
EventCallback_init_callback(W, self, model) ==
    LET r == BaseCallback_init_callback(W, self, model)
    IN  IF Raised(r.ret) THEN r
        ELSE IF r.w.cb[self].callback = None
             THEN Out(Log(r.w, "raise", self, "AttributeError"),
                      "AttributeError")
             ELSE InitCallback(r.w, r.w.cb[self].callback, r.w.cb[self].model)

IsEvent(o) == o.class \in {"EvalCallback", "EveryNTimesteps"}

\* callback.init_callback(model), by the class of callback
InitCallback(W, self, model) ==
    IF IsEvent(W.cb[self])
    THEN EventCallback_init_callback(W, self, model)
    ELSE BaseCallback_init_callback(W, self, model)

\* -------------------------------------------------- on_training_start

RECURSIVE OnTrainingStart(_, _, _, _)

\* a plausible slip: the two dictionaries handed on in the wrong order
RECURSIVE CallbackList_start_loop_swapped(_, _, _, _, _)
CallbackList_start_loop_swapped(W, callbacks, i, locals_, globals_) ==
    IF i > Len(callbacks) THEN Out(W, "None")
    ELSE LET r == OnTrainingStart(W, callbacks[i], globals_, locals_)
         IN  IF Raised(r.ret) THEN r
             ELSE CallbackList_start_loop_swapped(r.w, callbacks, i + 1,
                                                  locals_, globals_)

\* the loop of CallbackList._on_training_start, from the i-th callback on
RECURSIVE CallbackList_start_loop(_, _, _, _, _)
CallbackList_start_loop(W, callbacks, i, locals_, globals_) ==
    IF i > Len(callbacks) THEN Out(W, "None")
    ELSE LET r == OnTrainingStart(W, callbacks[i], locals_, globals_)
         IN  IF Raised(r.ret) THEN r
             ELSE CallbackList_start_loop(r.w, callbacks, i + 1,
                                          locals_, globals_)

\* EventCallback._on_training_start
EventCallback_on_training_start(W, self) ==
    IF W.cb[self].callback = None
    THEN Out(Log(W, "raise", self, "AttributeError"), "AttributeError")
    ELSE OnTrainingStart(W, W.cb[self].callback, W.cb[self].locals,
                         W.cb[self].globals)

\* BaseCallback.on_training_start
OnTrainingStart(W, self, locals_, globals_) ==
    LET W1 == Log([W EXCEPT !.cb[self].locals = locals_,
                            !.cb[self].globals = globals_],
                  "on_training_start", self, "")
    IN  IF IsEvent(W.cb[self]) THEN EventCallback_on_training_start(W1, self)
        ELSE IF W.cb[self].class = "CallbackList"
             THEN CallbackList_start_loop(W1, W.cb[self].callbacks, 1,
                                          W1.cb[self].locals,
                                          W1.cb[self].globals)
             ELSE Out(W1, "None")

\* ---------------------------------------------- rollouts, on_training_end

\* BaseCallback.on_rollout_start: _on_rollout_start is overridden nowhere
OnRolloutStart(W, self) == Out(Log(W, "on_rollout_start", self, ""), "None")

\* BaseCallback.on_rollout_end: _on_rollout_end is overridden nowhere
OnRolloutEnd(W, self) == Out(Log(W, "on_rollout_end", self, ""), "None")

RECURSIVE OnTrainingEnd(_, _)

\* the loop of CallbackList._on_training_end, from the i-th callback on
RECURSIVE CallbackList_end_loop(_, _, _)
CallbackList_end_loop(W, callbacks, i) ==
    IF i > Len(callbacks) THEN Out(W, "None")
    ELSE LET r == OnTrainingEnd(W, callbacks[i])
         IN  IF Raised(r.ret) THEN r
             ELSE CallbackList_end_loop(r.w, callbacks, i + 1)

\* BaseCallback.on_training_end
OnTrainingEnd(W, self) ==
    LET W1 == Log(W, "on_training_end", self, "")
    IN  IF W.cb[self].class = "CallbackList"
        THEN CallbackList_end_loop(W1, W.cb[self].callbacks, 1)
        ELSE Out(W1, "None")

\* ------------------------------------------------------------- actions

\* the locals() and globals() dictionaries of the trainer's learn()
TheLocals == 1
TheGlobals == 2

Start(name, n) ==
    /\ program = name
    /\ stride = n
    /\ cb = Program(name)
    /\ root = IF ConstructionRaised(Program(name)) THEN None
              ELSE Len(Program(name))
    /\ model_num_timesteps = 0
    /\ saves = <<>>
    /\ npz = [p \in LogPaths |-> NoFile]
    /\ dirs = {}
    /\ phase = IF ConstructionRaised(Program(name)) THEN "crashed"
               ELSE "constructed"
    /\ lastOp = "__init__"
    /\ lastRet = IF ConstructionRaised(Program(name)) THEN "AssertionError"
                 ELSE "None"
    /\ trace = <<>>
    /\ evaluated = <<>>
    /\ fires = <<>>
    /\ evals = {}
    /\ evalCount = [h \in DOMAIN Program(name) |-> 0]
    /\ stepCalls = [h \in DOMAIN Program(name) |-> 0]

\* The end-to-end program runs in lockstep (the callback is called after
\* every `stride` timesteps), the others with any advance between two calls
Init ==
    \E name \in Programs :
        \E n \in (IF name = "e2e" THEN 1..MaxAdvance ELSE {0}) : Start(name, n)

ConvertIds ==
    {h \in Ids : cb[h].class = "ConvertCallback" /\ cb[h].callback # None}

HasEval == \E h \in Ids : cb[h].class = "EvalCallback"

\* how many callback() calls and timesteps the run is given
CallLimit ==
    IF program = "e2e" THEN E2ECalls ELSE IF HasEval THEN EvalCalls ELSE MaxCalls
TimeLimit ==
    IF program = "e2e" THEN E2ECalls * stride
    ELSE IF HasEval THEN EvalTimesteps ELSE MaxTimesteps

\* the number of __call__ entries on h in a record of calls
RECURSIVE CallsOn(_, _)
CallsOn(tr, h) ==
    IF tr = <<>> THEN 0
    ELSE (IF Head(tr).op = "call" /\ Head(tr).h = h THEN 1 ELSE 0)
         + CallsOn(Tail(tr), h)

\* the state after the trainer's call `op` on the root came out as r; an
\* exception ends the run
Commit(r, op, next) ==
    /\ cb' = r.w.cb
    /\ saves' = r.w.saves
    /\ npz' = r.w.npz
    /\ dirs' = r.w.dirs
    /\ trace' = r.w.trace
    /\ evaluated' = r.w.evaluated
    /\ fires' = r.w.fires
    /\ evals' = r.w.evals
    /\ evalCount' = r.w.evalCount
    /\ stepCalls' = [h \in Ids |-> stepCalls[h] + CallsOn(r.w.trace, h)]
    /\ lastOp' = op
    /\ lastRet' = r.ret
    /\ phase' = IF Raised(r.ret) THEN "crashed" ELSE next
    /\ UNCHANGED <<program, root, model_num_timesteps, stride>>

\* callback.init_callback(model)
DoInitCallback ==
    /\ phase = "constructed"
    /\ Commit(InitCallback(World, root, TheModel), "init_callback",
              "initialized")

\* callback.on_training_start(locals(), globals())
DoOnTrainingStart ==
    /\ phase = "initialized"
    /\ Commit(OnTrainingStart(World, root, TheLocals, TheGlobals),
              "on_training_start", "training")

\* callback.on_rollout_start()
DoOnRolloutStart ==
    /\ phase = "training"
    /\ Commit(OnRolloutStart(World, root), "on_rollout_start", "rollout")

\* the environment is stepped: model.num_timesteps grows
Collect ==
    /\ phase = "rollout"
    /\ \E d \in 1..MaxAdvance :
          /\ stride # 0 => d = stride /\ model_num_timesteps < stride * stepCalls[root]
          /\ model_num_timesteps + d <= TimeLimit
          /\ model_num_timesteps' = model_num_timesteps + d
    /\ lastOp' = "collect"
    /\ lastRet' = "None"
    /\ trace' = <<>>
    /\ evaluated' = <<>>
    /\ UNCHANGED <<program, cb, root, saves, npz, dirs, stride, phase, fires,
                   evals, evalCount, stepCalls>>

\* some callback of the program calls model.save
HasSaver ==
    \E h \in Ids : \/ cb[h].class = "CheckpointCallback"
                   \/ /\ cb[h].class = "EvalCallback"
                      /\ cb[h].best_model_save_path # NoPath

\* the numbers of episodes evaluate_policy is asked for
EpisodeCounts ==
    {cb[h].n_eval_episodes : h \in {i \in Ids : cb[i].class = "EvalCallback"}}

\* what the outside world answers during one callback() call: the episode
\* rewards of an evaluation of n episodes, what each old-style function
\* returns, whether model.save fails
Inputs ==
    {inp \in [rewards : [EpisodeCounts ->
                             UNION {[1..n -> 0..MaxReward] : n \in EpisodeCounts}],
               convert : [ConvertIds -> BOOLEAN],
               save_fails : IF HasSaver THEN BOOLEAN ELSE {FALSE}] :
        \A n \in EpisodeCounts : Len(inp.rewards[n]) = n}

\* callback(): one step of the training loop
DoCall ==
    /\ phase = "rollout"
    /\ stepCalls[root] < CallLimit
    /\ stride # 0 => model_num_timesteps = stride * stepCalls[root]
    /\ \E inp \in Inputs : Commit(Call(World, root, inp), "__call__", "rollout")

\* callback.on_rollout_end()
DoOnRolloutEnd ==
    /\ phase = "rollout"
    /\ Commit(OnRolloutEnd(World, root), "on_rollout_end", "training")

\* callback.on_training_end()
DoOnTrainingEnd ==
    /\ phase = "training"
    /\ Commit(OnTrainingEnd(World, root), "on_training_end", "ended")

Next ==
    \/ DoInitCallback
    \/ DoOnTrainingStart
    \/ DoOnRolloutStart
    \/ Collect
    \/ DoCall
    \/ DoOnRolloutEnd
    \/ DoOnTrainingEnd

Spec == Init /\ [][Next]_vars

\* ------------------------------------------------- reading the records

Range(seq) == {seq[i] : i \in 1..Len(seq)}

\* the callbacks among S whose __call__ was entered, in the order of entry
CallOrder(tr, S) ==
    LET entered == SelectSeq(tr, LAMBDA e : e.op = "call" /\ e.h \in S)
    IN  [i \in 1..Len(entered) |-> entered[i].h]

\* h's __call__ came back with a value
Returned(tr, h) == \E i \in 1..Len(tr) : tr[i].op = "return" /\ tr[i].h = h

\* the value h's __call__ came back with
RetOf(tr, h) ==
    LET i == CHOOSE i \in 1..Len(tr) : tr[i].op = "return" /\ tr[i].h = h
    IN  tr[i].ret

\* the firings of h among the recorded firings
FiresBy(fs, h) == SelectSeq(fs, LAMBDA f : f.by = h)

\* the save requests of h among the recorded requests
SavesBy(ss, h) == SelectSeq(ss, LAMBDA x : x.by = h)

Lists == {h \in Ids : cb[h].class = "CallbackList"}
Checkpoints == {h \in Ids : cb[h].class = "CheckpointCallback"}
Evals == {h \in Ids : cb[h].class = "EvalCallback"}
Stops == {h \in Ids : cb[h].class = "StopTrainingOnRewardThreshold"}
EveryNs == {h \in Ids : cb[h].class = "EveryNTimesteps"}

\* ------------------------------------------------------------- claims

\* C1: one step() of a CallbackList whose children all come back with a
\* result calls every child exactly once, in list order, also after a child
\* came back with False; it returns the conjunction of the children's
\* results; every child's n_calls grows by exactly 1.
C1_ListStepsEveryChild ==
    [][\A l \in Lists :
          (lastOp' = "__call__" /\ Returned(trace', l)) =>
              LET kids == cb[l].callbacks
              IN  /\ CallOrder(trace', Range(kids)) = kids
                  /\ \A i \in 1..Len(kids) : Returned(trace', kids[i])
                  /\ RetOf(trace', l) =
                        PyBool(\A i \in 1..Len(kids) :
                                   RetOf(trace', kids[i]) = "True")
                  /\ \A i \in 1..Len(kids) :
                        cb'[kids[i]].n_calls = cb[kids[i]].n_calls + 1]_vars

\* C1 witness: a list of three children stepped, the first came back with
\* False, the later ones were still called, and the list returned False
C1_Witness ==
    /\ lastOp = "__call__"
    /\ cb[root].class = "CallbackList"
    /\ Len(cb[root].callbacks) = 3
    /\ Returned(trace, root)
    /\ RetOf(trace, cb[root].callbacks[1]) = "False"
    /\ RetOf(trace, cb[root].callbacks[2]) = "True"
    /\ RetOf(trace, cb[root].callbacks[3]) = "True"
    /\ lastRet = "False"
    /\ \A i \in 1..3 : cb[cb[root].callbacks[i]].n_calls = 2

\* C2: a CheckpointCallback of period F has issued exactly floor(T / F) save
\* requests after T calls; a call issues one request when its number is a
\* multiple of F and none otherwise; a call that comes back returns True.
C2_CheckpointEveryFCalls ==
    [][\A h \in Checkpoints :
          LET T == cb'[h].n_calls
              F == cb[h].save_freq
              before == Len(SavesBy(saves, h))
              after == Len(SavesBy(saves', h))
              called == lastOp' = "__call__" /\ CallOrder(trace', {h}) = <<h>>
          IN  /\ T = stepCalls'[h]
              /\ after = T \div F
              /\ after = IF called /\ T % F = 0 THEN before + 1 ELSE before
              /\ (lastOp' = "__call__" /\ Returned(trace', h)) =>
                     RetOf(trace', h) = "True"]_vars

\* C2 witness: period 2, four calls made at timesteps that are not the call
\* numbers, two requests issued, the fourth call returned True
C2_Witness ==
    /\ program = "checkpoint2"
    /\ lastOp = "__call__"
    /\ lastRet = "True"
    /\ cb[root].n_calls = 4
    /\ cb[root].num_timesteps = 6
    /\ Len(saves) = 2
    /\ saves[1].path = <<"ckpt", "rl_model_3_steps">>
    /\ saves[2].path = <<"ckpt", "rl_model_6_steps">>

\* C3: an EveryNTimesteps of interval S fires on a call exactly when
\* num_timesteps - last_time_trigger >= S; as last_time_trigger starts at 0
\* the first firing is on the first call with num_timesteps >= S; a firing
\* sets last_time_trigger to num_timesteps and calls the child; a call that
\* does not fire leaves last_time_trigger alone, does not call the child and
\* returns True.
C3_EveryNFiresOnInterval ==
    [][\A e \in EveryNs :
          LET S == cb[e].n_steps
              now == cb'[e].num_timesteps
              called == lastOp' = "__call__" /\ CallOrder(trace', {e}) = <<e>>
              fired == Len(FiresBy(fires', e)) = Len(FiresBy(fires, e)) + 1
              kid == {cb[e].callback} \ {None}
          IN  /\ FiresBy(fires', e) = <<>> =>
                    cb'[e].last_time_trigger = 0 /\ now < S
              /\ ~called =>
                    /\ FiresBy(fires', e) = FiresBy(fires, e)
                    /\ cb'[e].last_time_trigger = cb[e].last_time_trigger
              /\ called =>
                    /\ fired <=> now - cb[e].last_time_trigger >= S
                    /\ FiresBy(fires, e) = <<>> => (fired <=> now >= S)
                    /\ fired =>
                          /\ FiresBy(fires', e) =
                                Append(FiresBy(fires, e), [by |-> e, at |-> now])
                          /\ cb'[e].last_time_trigger = now
                          /\ \A k \in kid : CallOrder(trace', {k}) = <<k>>
                    /\ ~fired =>
                          /\ FiresBy(fires', e) = FiresBy(fires, e)
                          /\ cb'[e].last_time_trigger = cb[e].last_time_trigger
                          /\ \A k \in kid : CallOrder(trace', {k}) = <<>>
                          /\ Returned(trace', e) /\ RetOf(trace', e) = "True"]_vars

\* C3 witness: interval 2, first firing at timestep 2, the next one only at
\* timestep 5 after calls at 3 that did not fire, then a call at 6 that did
\* not fire
C3_Witness ==
    /\ program = "every2"
    /\ lastOp = "__call__"
    /\ lastRet = "True"
    /\ fires = <<[by |-> root, at |-> 2], [by |-> root, at |-> 5]>>
    /\ cb[root].n_calls = 4
    /\ cb[root].num_timesteps = 6
    /\ cb[root].last_time_trigger = 5
    /\ cb[cb[root].callback].n_calls = 2

\* the mean reward of the evaluation h ran during the last call
EvaluatedBy(ev, h) == SelectSeq(ev, LAMBDA x : x.by = h)
MeanOf(ev, h) == Mean(EvaluatedBy(ev, h)[1].episode_rewards)

\* C4: best_mean_reward of an EvalCallback changes only in a call whose
\* evaluation has a mean strictly greater than it, and then becomes that mean;
\* an evaluation whose mean equals best_mean_reward leaves it unchanged,
\* issues no save request and does not fire the child.
C4_BestOnlyOnStrictImprovement ==
    [][\A e \in Evals :
          LET old == cb[e].best_mean_reward
              new == cb'[e].best_mean_reward
              ran == lastOp' = "__call__" /\ EvaluatedBy(evaluated', e) # <<>>
              m == MeanOf(evaluated', e)
              kid == {cb[e].callback} \ {None}
          IN  /\ new # old =>
                    /\ ran
                    /\ IsInf(old) \/ m[1] * old[2] > old[1] * m[2]
                    /\ new = m
              /\ (ran /\ ~IsInf(old) /\ m[1] * old[2] = old[1] * m[2]) =>
                    /\ new = old
                    /\ SavesBy(saves', e) = SavesBy(saves, e)
                    /\ FiresBy(fires', e) = FiresBy(fires, e)
                    /\ \A k \in kid : CallOrder(trace', {k}) = <<>>
                    /\ Returned(trace', e) /\ RetOf(trace', e) = "True"]_vars

\* C4 witness: an evaluation with mean 1 after an earlier evaluation with
\* mean 1 made the best-model save: one save request, the child not called
C4_Witness ==
    /\ program = "eval_stop"
    /\ lastOp = "__call__"
    /\ cb[root].n_calls = 3
    /\ evaluated # <<>>
    /\ MeanOf(evaluated, root) = <<2, 2>>
    /\ cb[root].best_mean_reward = <<2, 2>>
    /\ evals = {[by |-> root, mean |-> <<2, 2>>]}
    /\ Len(saves) = 1
    /\ CallOrder(trace, {cb[root].callback}) = <<>>
    /\ lastRet = "True"

\* C5 (the claim as stated): a StopTrainingOnRewardThreshold whose __call__
\* runs while its parent is not an EvalCallback (no parent, or a parent of
\* another class) raises the AssertionError "must be used with an
\* EvalCallback".
C5_StopWithoutEvalAsserts ==
    \A h \in Stops :
        (/\ lastOp = "__call__"
         /\ CallOrder(trace, {h}) = <<h>>
         /\ \/ cb[h].parent = None
            \/ cb[cb[h].parent].class # "EvalCallback") =>
            lastRet = "AssertionError"

\* C6 (the claim as stated): init_callback on an EventCallback built without
\* a child binds the callback and completes without a failure.
C6_ChildlessInitCompletes ==
    (/\ lastOp = "init_callback"
     /\ IsEvent(cb[root])
     /\ cb[root].callback = None) =>
        /\ cb[root].model = TheModel
        /\ lastRet = "None"

\* C7: CallbackList([CheckpointCallback(10), EveryNTimesteps(5, inner)]) with
\* one timestep per call (num_timesteps is the call number): after n calls
\* that came back, the save requests are those of calls 10, 20, ..., the inner
\* callback was fired at timesteps 5, 10, 15, ... and at no other; so 20 calls
\* give 2 requests (calls 10 and 20) and 4 firings (timesteps 5, 10, 15, 20).
C7_EndToEnd ==
    (program = "e2e" /\ stride = 1 /\ phase # "crashed") =>
        LET n == cb[root].n_calls
            checkpoint == cb[root].callbacks[1]
            every == cb[root].callbacks[2]
            inner == cb[every].callback
        IN  /\ n = stepCalls[root]
            /\ saves = [k \in 1..(n \div 10) |->
                          [by |-> checkpoint,
                           path |-> <<"ckpt", "rl_model_" \o ToString(10 * k)
                                                         \o "_steps">>]]
            /\ fires = [k \in 1..(n \div 5) |-> [by |-> every, at |-> 5 * k]]
            /\ cb[inner].n_calls = n \div 5
            /\ n = 20 => Len(saves) = 2 /\ Len(fires) = 4

\* C7 witness: the twentieth call came back
C7_Witness ==
    /\ program = "e2e"
    /\ stride = 1
    /\ lastOp = "__call__"
    /\ lastRet = "True"
    /\ cb[root].n_calls = 20
    /\ model_num_timesteps = 19
    /\ Len(saves) = 2
    /\ saves[2].path = <<"ckpt", "rl_model_20_steps">>
    /\ fires[4].at = 20
    /\ cb[2].n_calls = 4

\* C8: a StopTrainingOnRewardThreshold of threshold th under an EvalCallback
\* returns, on every call, True when the parent's best_mean_reward is
\* strictly less than th and False when it is equal to or greater than th.
C8_StopAtThreshold ==
    \A h \in Stops :
        (/\ lastOp = "__call__"
         /\ CallOrder(trace, {h}) = <<h>>
         /\ cb[h].parent # None
         /\ cb[cb[h].parent].class = "EvalCallback") =>
            LET best == cb[cb[h].parent].best_mean_reward
                th == cb[h].reward_threshold
            IN  /\ Returned(trace, h)
                /\ RetOf(trace, h) =
                      IF IsInf(best) \/ best[1] * th[2] < th[1] * best[2]
                      THEN "True" ELSE "False"

\* C8 witness: best_mean_reward 2/2 meets the threshold 1 exactly and the
\* callback returned False
C8_Witness ==
    /\ program = "eval_stop"
    /\ lastOp = "__call__"
    /\ CallOrder(trace, {cb[root].callback}) = <<cb[root].callback>>
    /\ cb[root].best_mean_reward = <<2, 2>>
    /\ cb[cb[root].callback].reward_threshold = <<1, 1>>
    /\ RetOf(trace, cb[root].callback) = "False"
    /\ lastRet = "False"

\* C9: a __call__ on a callback adds exactly 1 to its n_calls, sets its
\* num_timesteps to model.num_timesteps + 1 and returns what its _on_step
\* returned; n_calls is the number of __call__ made on the callback; no other
\* operation (init_callback, on_training_start, on_rollout_start,
\* on_rollout_end, on_training_end, the environment stepping) changes n_calls
\* or num_timesteps.
C9_CallCounts ==
    [][\A h \in Ids :
          LET k == CallsOn(trace', h)
          IN  /\ lastOp' # "__call__" => k = 0
              /\ k <= 1
              /\ cb'[h].n_calls = cb[h].n_calls + k
              /\ cb'[h].n_calls = stepCalls'[h]
              /\ cb'[h].num_timesteps =
                    IF k = 1 THEN model_num_timesteps + 1
                    ELSE cb[h].num_timesteps
              /\ \A i \in 1..Len(trace') :
                    (trace'[i].op = "return" /\ trace'[i].h = h) =>
                        /\ i > 1
                        /\ trace'[i - 1] =
                              [op |-> "_on_step", h |-> h, ret |-> trace'[i].ret]
                        /\ trace'[i].ret \in {"True", "False"}
              /\ (h = root /\ lastOp' = "__call__" /\ ~Raised(lastRet')) =>
                    /\ Returned(trace', h)
                    /\ lastRet' = RetOf(trace', h)]_vars

\* C9 witness: in a list called three times at timesteps 1, 2, 3 the
\* threshold callback under the EvalCallback was called once, at timestep 1
C9_Witness ==
    /\ program = "list_eval"
    /\ lastOp = "__call__"
    /\ lastRet = "True"
    /\ cb[root].n_calls = 3
    /\ cb[root].num_timesteps = 3
    /\ cb[2].n_calls = 3
    /\ cb[1].n_calls = 1
    /\ cb[1].num_timesteps = 1
    /\ stepCalls = <<1, 3, 3, 3>>

\* the means of the evaluations h performed
MeansBy(es, h) == {x.mean : x \in {y \in es : y.by = h}}

\* best is the maximum of the means, or -inf when there is none
IsMaxOf(best, means) ==
    IF means = {} THEN best = NegInf
    ELSE /\ \E m \in means : NumEq(best, m)
         /\ \A m \in means : ~Less(best, m)

C11_EvalEveryECalls ==
    [][\A e \in Evals :
          LET E == cb[e].eval_freq
              old == cb[e].best_mean_reward
              called == lastOp' = "__call__" /\ CallOrder(trace', {e}) = <<e>>
              ran == EvaluatedBy(evaluated', e) # <<>>
              m == MeanOf(evaluated', e)
              exceeds == ran /\ (IsInf(old) \/ m[1] * old[2] > old[1] * m[2])
              kid == {cb[e].callback} \ {None}
              fired == Len(FiresBy(fires', e)) = Len(FiresBy(fires, e)) + 1
          IN  /\ ~called => ~ran /\ FiresBy(fires', e) = FiresBy(fires, e)
              /\ called =>
                    /\ ran <=> cb'[e].n_calls % E = 0
                    /\ Len(EvaluatedBy(evaluated', e)) <= 1
                    /\ \A k \in kid :
                          /\ fired <=> CallOrder(trace', {k}) = <<k>>
                          /\ ~fired => CallOrder(trace', {k}) = <<>>
                          /\ fired => exceeds
                          /\ (fired /\ Returned(trace', k)) =>
                                /\ Returned(trace', e)
                                /\ RetOf(trace', e) = RetOf(trace', k)
                    /\ ~exceeds =>
                          /\ Returned(trace', e) /\ RetOf(trace', e) = "True"
                          /\ FiresBy(fires', e) = FiresBy(fires, e)
                          /\ cb'[e].best_mean_reward = old]_vars

\* C11 witness: period 2; the first call ran no evaluation, the second, made
\* at the same timestep, ran one with mean 1/2, called the child and returned
\* the child's False
C11_Witness ==
    /\ program = "eval_stop2"
    /\ lastOp = "__call__"
    /\ cb[root].n_calls = 2
    /\ cb[root].num_timesteps = 1
    /\ MeanOf(evaluated, root) = <<1, 2>>
    /\ evals = {[by |-> root, mean |-> <<1, 2>>]}
    /\ CallOrder(trace, {cb[root].callback}) = <<cb[root].callback>>
    /\ RetOf(trace, cb[root].callback) = "False"
    /\ lastRet = "False"

\* C12: an EvalCallback with a log path appends, in every evaluation, exactly
\* one entry to evaluations_timesteps (its num_timesteps) and one to
\* evaluations_results (the episode rewards) and then writes both lists in
\* full to the log path; this comes before the comparison with
\* best_mean_reward, so it happens whether or not the evaluation is a new best
\* and also when the best-model save raises afterwards; the two lists always
\* have the same length, the number of evaluations run so far.  Without a log
\* path both lists stay empty and nothing is written.
C12_HistoryLogged ==
    [][\A e \in Evals :
          LET ran == lastOp' = "__call__" /\ EvaluatedBy(evaluated', e) # <<>>
              path == cb[e].log_path
              ts == cb[e].evaluations_timesteps
              rs == cb[e].evaluations_results
              ts_ == cb'[e].evaluations_timesteps
              rs_ == cb'[e].evaluations_results
          IN  IF path # NoPath
              THEN /\ ran =>
                         /\ ts_ = Append(ts, cb'[e].num_timesteps)
                         /\ rs_ = Append(rs, EvaluatedBy(evaluated', e)[1]
                                                 .episode_rewards)
                         /\ npz'[path] = [written |-> TRUE, timesteps |-> ts_,
                                          results |-> rs_]
                   /\ ~ran => ts_ = ts /\ rs_ = rs /\ npz'[path] = npz[path]
                   /\ Len(ts_) = evalCount'[e]
                   /\ Len(rs_) = evalCount'[e]
                   /\ Len(ts) = evalCount[e] /\ Len(rs) = evalCount[e]
              ELSE /\ ts_ = <<>> /\ rs_ = <<>>
                   /\ ts = <<>> /\ rs = <<>>
                   /\ \A p \in LogPaths \ {cb[x].log_path : x \in Evals} :
                         npz'[p] = NoFile /\ npz[p] = NoFile]_vars

\* C12 witness: three evaluations at timesteps 1, 2, 3 with rewards 1, 0, 1:
\* the third is no new best and is in the lists and in the file all the same
C12_Witness ==
    /\ program = "eval_log"
    /\ lastOp = "__call__"
    /\ lastRet = "True"
    /\ evalCount[root] = 3
    /\ cb[root].evaluations_timesteps = <<1, 2, 3>>
    /\ cb[root].evaluations_results = <<<<1>>, <<0>>, <<1>>>>
    /\ cb[root].best_mean_reward = <<1, 1>>
    /\ Len(saves) = 1
    /\ npz[cb[root].log_path] =
          [written |-> TRUE, timesteps |-> <<1, 2, 3>>,
           results |-> <<<<1>>, <<0>>, <<1>>>>]

\* C13: constructing an EvalCallback with a vectorized evaluation environment
\* of more than one instance raises the AssertionError "You must pass only
\* one environment for evaluation" in __init__: the constructor hands no
\* callback to the trainer, and no EvalCallback that was initialised or
\* called has such an environment.
C13_MultiEnvFailsAtConstruction ==
    /\ (HasEval /\ EvalEnv(program).vec /\ EvalEnv(program).num_envs > 1) =>
          /\ phase = "crashed"
          /\ lastOp = "__init__"
          /\ lastRet = "AssertionError"
          /\ root = None
          /\ \A e \in Evals :
                /\ ~HasAttr(cb[e], "eval_env")
                /\ cb[e].model = None
                /\ cb[e].n_calls = 0
                /\ stepCalls[e] = 0
    /\ \A e \in Evals :
          (cb[e].model # None \/ cb[e].n_calls > 0 \/ stepCalls[e] > 0) =>
              /\ HasAttr(cb[e], "eval_env")
              /\ cb[e].eval_env.vec => cb[e].eval_env.num_envs = 1

\* C13 witness: the constructor was given a VecEnv of MultiEnvs instances and
\* raised; the child built before it refers to the half-built parent
C13_Witness ==
    /\ program = "eval_vec"
    /\ EvalEnv(program) = VecEnv(MultiEnvs)
    /\ MultiEnvs > 1
    /\ lastOp = "__init__"
    /\ lastRet = "AssertionError"
    /\ phase = "crashed"
    /\ cb[1].parent = 2
    /\ cb[2].class = "EvalCallback"
    /\ cb[2].best_mean_reward = NegInf

\* the callbacks among S on which `op` was called, in the order of the calls
OpOrder(tr, op, S) ==
    LET made == SelectSeq(tr, LAMBDA x : x.op = op /\ x.h \in S)
    IN  [i \in 1..Len(made) |-> made[i].h]

\* the place of the call of `op` on h in the record of calls
PlaceOf(tr, op, h) == CHOOSE i \in 1..Len(tr) : tr[i].op = op /\ tr[i].h = h

\* the callbacks that hand lifecycle calls on: the lists to their children,
\* the event callbacks to their child
Events == {h \in Ids : IsEvent(cb[h]) /\ cb[h].callback # None}

\* C14: init_callback(model), on_training_start(locals, globals) and
\* on_training_end() on a CallbackList, when they complete, were made on every
\* child exactly once, in list order, after the list itself; after
\* init_callback every child has the model of the list, after
\* on_training_start every child has the locals and globals of the list.  An
\* EventCallback with a child hands init_callback and on_training_start on to
\* the child in the same way, itself first.
C14_LifecyclePropagates ==
    [][(lastOp' \in {"init_callback", "on_training_start", "on_training_end"}
        /\ lastRet' = "None") =>
          /\ \A l \in Lists :
                LET kids == cb[l].callbacks
                IN  /\ OpOrder(trace', lastOp', {l}) = <<l>>
                    /\ OpOrder(trace', lastOp', Range(kids)) = kids
                    /\ \A i \in 1..Len(kids) :
                          /\ PlaceOf(trace', lastOp', l)
                                < PlaceOf(trace', lastOp', kids[i])
                          /\ cb'[kids[i]].model = cb'[l].model
                          /\ cb'[kids[i]].locals = cb'[l].locals
                          /\ cb'[kids[i]].globals = cb'[l].globals
                    /\ cb'[l].model = TheModel
                    /\ lastOp' # "init_callback" =>
                          cb'[l].locals = TheLocals /\ cb'[l].globals = TheGlobals
          /\ \A e \in Events :
                LET k == cb[e].callback
                IN  lastOp' # "on_training_end" =>
                       /\ OpOrder(trace', lastOp', {e, k}) = <<e, k>>
                       /\ cb'[k].model = cb'[e].model
                       /\ cb'[e].model = TheModel
                       /\ cb'[k].locals = cb'[e].locals
                       /\ cb'[k].globals = cb'[e].globals
                       /\ lastOp' = "on_training_start" =>
                             /\ cb'[e].locals = TheLocals
                             /\ cb'[e].globals = TheGlobals]_vars

\* C14 witness: on_training_start on the list [EvalCallback(child), Convert]
\* went to the list, the EvalCallback, its child and the second child, in that
\* order, and all four hold the trainer's model, locals and globals
C14_Witness ==
    /\ program = "list_eval"
    /\ lastOp = "on_training_start"
    /\ lastRet = "None"
    /\ OpOrder(trace, "on_training_start", Ids) = <<4, 2, 1, 3>>
    /\ \A h \in Ids : /\ cb[h].model = TheModel
                      /\ cb[h].locals = TheLocals
                      /\ cb[h].globals = TheGlobals

\* the callbacks whose __call__ ended with an exception
Raisers(tr) == {tr[i].h : i \in {j \in 1..Len(tr) : tr[j].op = "raise"}}

\* the place of the first exception in the record of calls
FirstRaise(tr) ==
    CHOOSE i \in 1..Len(tr) :
        tr[i].ret # "" /\ Raised(tr[i].ret)
        /\ \A j \in 1..(i - 1) : tr[j].ret = "" \/ ~Raised(tr[j].ret)

\* C15: an exception raised inside a callback's step (model.save failing in a
\* CheckpointCallback or in the new-best branch of an EvalCallback, the
\* failure of a StopTrainingOnRewardThreshold used without an EvalCallback)
\* leaves every enclosing CallbackList and EventCallback and reaches the
\* trainer: no callback is called after it in that round, so the later
\* children of a CallbackList are not called, no call on the way returns a
\* boolean, and the run ends; when the best-model save of an EvalCallback
\* raises, best_mean_reward keeps its value and the child is not called.
C15_FailuresPropagate ==
    [][(lastOp' = "__call__" /\ Raised(lastRet')) =>
          LET tr == trace'
              first == FirstRaise(tr)
              origin == tr[first].h
          IN  /\ phase' = "crashed"
              /\ tr[Len(tr)] = [op |-> "raise", h |-> root, ret |-> lastRet']
              /\ \A i \in first..Len(tr) :
                    tr[i].op \in {"_on_step", "raise"} /\ tr[i].ret = lastRet'
              /\ \A h \in Ids :
                    CallOrder(tr, {h}) = <<h>> =>
                        (h \in Raisers(tr) <=> ~Returned(tr, h))
              /\ \A l \in Lists \cap Raisers(tr) :
                    LET kids == cb[l].callbacks
                        called == CallOrder(tr, Range(kids))
                        n == Len(called)
                    IN  /\ n >= 1
                        /\ called = SubSeq(kids, 1, n)
                        /\ kids[n] \in Raisers(tr)
                        /\ \A i \in 1..(n - 1) : Returned(tr, kids[i])
                        /\ \A i \in (n + 1)..Len(kids) :
                              cb'[kids[i]].n_calls = cb[kids[i]].n_calls
              /\ \A e \in Events \cap Raisers(tr) :
                    e # origin => cb[e].callback \in Raisers(tr)
              /\ origin \in Checkpoints =>
                    /\ lastRet' = "OSError"
                    /\ Len(SavesBy(saves', origin))
                          = Len(SavesBy(saves, origin)) + 1
              /\ origin \in Stops =>
                    \/ lastRet' = "AssertionError" /\ cb[origin].parent = None
                    \/ lastRet' = "AttributeError" /\ cb[origin].parent # None
              /\ origin \in Evals =>
                    /\ lastRet' = "OSError"
                    /\ EvaluatedBy(evaluated', origin) # <<>>
                    /\ Len(SavesBy(saves', origin))
                          = Len(SavesBy(saves, origin)) + 1
                    /\ cb'[origin].best_mean_reward
                          = cb[origin].best_mean_reward
                    /\ FiresBy(fires', origin) = FiresBy(fires, origin)
                    /\ \A k \in {cb[origin].callback} \ {None} :
                          /\ CallOrder(tr, {k}) = <<>>
                          /\ cb'[k].n_calls = cb[k].n_calls
              /\ origin \in Checkpoints \cup Stops \cup Evals]_vars

\* C15 witness: in the list [EvalCallback(child), Convert] the second
\* evaluation (mean 1 after mean 1/2) was a new best whose save raised: the
\* OSError reached the trainer, best_mean_reward is still 1/2, neither the
\* child nor the list's second callback was called in that round
C15_Witness ==
    /\ program = "list_eval"
    /\ lastOp = "__call__"
    /\ lastRet = "OSError"
    /\ phase = "crashed"
    /\ cb[root].n_calls = 2
    /\ MeanOf(evaluated, 2) = <<2, 2>>
    /\ cb[2].best_mean_reward = <<1, 2>>
    /\ Len(saves) = 2
    /\ cb[1].n_calls = 1
    /\ cb[3].n_calls = 1
    /\ CallOrder(trace, Ids) = <<4, 2>>
    /\ Raisers(trace) = {2, 4}

\* the EvalCallbacks whose child is a StopTrainingOnRewardThreshold
EvalsWithStop == {e \in Evals \cap Events : cb[e].callback \in Stops}

\* a >= b on two finite means
AtLeast(a, b) == a[1] * b[2] >= b[1] * a[2]

\* C16: an EvalCallback whose child is a StopTrainingOnRewardThreshold of
\* threshold th returns False from exactly those calls that ran an evaluation
\* whose mean is a new strict best and is >= th, and True from every other
\* call that returns.  So the evaluation that is the first with a mean >= th
\* returns False, and the signal is not kept: a later call without a new best
\* returns True although best_mean_reward is >= th.
C16_StopSignalNotLatched ==
    [][\A e \in EvalsWithStop :
          LET th == cb[cb[e].callback].reward_threshold
              old == cb[e].best_mean_reward
              ran == EvaluatedBy(evaluated', e) # <<>>
              m == MeanOf(evaluated', e)
              newBest == ran /\ (IsInf(old) \/ m[1] * old[2] > old[1] * m[2])
          IN  (lastOp' = "__call__" /\ Returned(trace', e)) =>
                 /\ RetOf(trace', e) \in {"True", "False"}
                 /\ RetOf(trace', e) = "False" <=> (newBest /\ AtLeast(m, th))
                 /\ (/\ ran
                     /\ AtLeast(m, th)
                     /\ \A x \in MeansBy(evals, e) : ~AtLeast(x, th)) =>
                        RetOf(trace', e) = "False"
                 /\ (~IsInf(old) /\ AtLeast(old, th) /\ ~newBest) =>
                        RetOf(trace', e) = "True"]_vars

\* C16 witness: threshold 1; evaluations with means 1/2, 1 and 1/2: the third
\* call returned True with best_mean_reward 1 already at the threshold
C16_Witness ==
    /\ program = "eval_stop"
    /\ lastOp = "__call__"
    /\ lastRet = "True"
    /\ evalCount[root] = 3
    /\ evals = {[by |-> root, mean |-> <<1, 2>>], [by |-> root, mean |-> <<2, 2>>]}
    /\ MeanOf(evaluated, root) = <<1, 2>>
    /\ cb[root].best_mean_reward = <<2, 2>>
    /\ AtLeast(cb[root].best_mean_reward, cb[cb[root].callback].reward_threshold)
    /\ cb[cb[root].callback].n_calls = 2

\* C17: the child of an EventCallback is called only when the parent fires
\* it: the child's n_calls is the number of the parent's firings, never more
\* than the parent's n_calls; so a CheckpointCallback of period F under an
\* EveryNTimesteps has issued floor(firings / F) save requests, the j-th at
\* the timestep of the (F * j)-th firing, and an EvalCallback of period E
\* under an EveryNTimesteps has run floor(firings / E) evaluations: they act
\* on every F-th or E-th firing, not on every F-th or E-th call of the
\* trainer.
C17_ChildCountsFirings ==
    \A e \in Events :
        LET k == cb[e].callback
            fired == FiresBy(fires, e)
        IN  /\ cb[k].n_calls = Len(fired)
            /\ stepCalls[k] = Len(fired)
            /\ Len(fired) <= cb[e].n_calls
            /\ (e \in EveryNs /\ k \in Checkpoints) =>
                  LET F == cb[k].save_freq
                  IN  SavesBy(saves, k) =
                         [j \in 1..(Len(fired) \div F) |->
                             [by |-> k,
                              path |-> PathJoin(cb[k].save_path,
                                          cb[k].name_prefix \o "_"
                                          \o ToString(fired[F * j].at)
                                          \o "_steps")]]
            /\ (e \in EveryNs /\ k \in Evals) =>
                  evalCount[k] = Len(fired) \div cb[k].eval_freq

\* C17 witness: EveryNTimesteps(2, CheckpointCallback(2)) called at timesteps
\* 1, 2 and 4: fired at 2 and 4, so the checkpoint's second call, the third
\* of the trainer, issued the save request
C17_Witness ==
    /\ program = "every_ckpt"
    /\ lastOp = "__call__"
    /\ lastRet = "True"
    /\ cb[root].n_calls = 3
    /\ fires = <<[by |-> root, at |-> 2], [by |-> root, at |-> 4]>>
    /\ cb[cb[root].callback].n_calls = 2
    /\ saves = <<[by |-> cb[root].callback,
                  path |-> <<"ckpt", "rl_model_4_steps">>]>>

\* C18: for an EveryNTimesteps of interval S >= 1, with model.num_timesteps
\* never decreasing and growing by any amount between two calls:
\* 0 <= last_time_trigger <= num_timesteps; last_time_trigger is 0 or the
\* num_timesteps of the latest firing; two firings in a row are at least S
\* timesteps apart; one call fires at most once, also when num_timesteps grew
\* by 2 * S or more since the latest firing.
C18_EveryNTriggerInvariants ==
    [][\A e \in EveryNs :
          LET S == cb[e].n_steps
              f == FiresBy(fires, e)
              g == FiresBy(fires', e)
          IN  /\ S >= 1
              /\ model_num_timesteps' >= model_num_timesteps
              /\ 0 <= cb[e].last_time_trigger
              /\ cb[e].last_time_trigger <= cb[e].num_timesteps
              /\ 0 <= cb'[e].last_time_trigger
              /\ cb'[e].last_time_trigger <= cb'[e].num_timesteps
              /\ cb[e].last_time_trigger =
                    IF f = <<>> THEN 0 ELSE f[Len(f)].at
              /\ cb'[e].last_time_trigger =
                    IF g = <<>> THEN 0 ELSE g[Len(g)].at
              /\ \A i \in 1..Len(g) :
                    g[i].at - (IF i = 1 THEN 0 ELSE g[i - 1].at) >= S
              /\ Len(g) <= Len(f) + 1
              /\ f = SubSeq(g, 1, Len(f))
              /\ (/\ lastOp' = "__call__"
                  /\ CallOrder(trace', {e}) = <<e>>
                  /\ cb'[e].num_timesteps - cb[e].last_time_trigger >= 2 * S) =>
                    /\ Len(g) = Len(f) + 1
                    /\ g[Len(g)].at = cb'[e].num_timesteps]_vars

\* C18 witness: interval 1; fired at timestep 1, then called again 2
\* timesteps later: one firing, at timestep 3
C18_Witness ==
    /\ program = "every1"
    /\ lastOp = "__call__"
    /\ cb[root].n_steps = 1
    /\ cb[root].n_calls = 2
    /\ fires = <<[by |-> root, at |-> 1], [by |-> root, at |-> 3]>>
    /\ cb[root].last_time_trigger = 3
    /\ cb[root].num_timesteps = 3
    /\ cb[cb[root].callback].n_calls = 2

====
